---- MODULE Spec2Model ----
(***************************************************************************)
(* snarp: silence removal for wave audio (src/snarp.py).                   *)
(*                                                                         *)
(* The pipeline of remove_silences is a chain of generators pulled by one  *)
(* for loop:                                                               *)
(*   chunked_samples -> tag_chunks -> tag_segments -> segmenter -> writes  *)
(* One step of the model is one pull of that chain: one chunk is read from *)
(* the wave, classified, run through the body of the tag_segments loop and *)
(* whatever tag_segments yields is grouped and written.                    *)
(*                                                                         *)
(* A raw frame is modelled by its position in the input (1, 2, ...), a     *)
(* frame block by the sequence of its frame positions, so that a dropped,  *)
(* duplicated or reordered block is visible.  The samples of a chunk are   *)
(* the unknown contents of the file: they are drawn when the chunk is read.*)
(***************************************************************************)
EXTENDS Integers, Sequences, FiniteSets, TLC

\* ---------------------------------------------------------------- bounds
MaxHysteresisChunks == 3
MaxRollChunks == 2
MaxFrames == 10
MaxFairFrames == 6
MaxSample == 1
MaxLimit == 1
MaxChunkSamples == 4
MaxTagSample == 2
MaxAttenuation == 40
MaxMainFrames == 4
MaxTimingHalfChunks == 4

\* ------------------------------------------------------ program constants
CHUNK_MS == 100
DEFAULT_HYSTERESIS_MS == 1000
DEFAULT_PRE_ROLL_MS == 200
DEFAULT_POST_ROLL_MS == 100

VARIABLES
    args,                \* main: the parsed command line
    SILENCE_LIMITS,      \* module globals <<SILENCE_PEAK_LIMIT, SILENCE_IQR_LIMIT>>, dBFS
    sample_width,        \* input_wave.getsampwidth(), bytes
    conv,                \* a dBFS value taken through the two conversions
    HYSTERESIS_MS,       \* module global, ms of silence that ends a segment
    PRE_ROLL_MS,         \* module global
    POST_ROLL_MS,        \* module global
    frame_rate,          \* input_wave.getframerate()
    wave_nframes,        \* frames held by the input wave
    wave_pos,            \* frames read from the input wave so far
    bypass_enabled,      \* bypass_file is not None
    delta_limits,        \* <<max_delta, iqr_delta>> handed to tag_chunks
    chunk_samples,       \* tag_chunks: the samples of the chunk being tagged
    tagged,              \* every <<chunk_silent, chunk_frames>> tag_chunks yielded
    buffer,              \* tag_segments: the RingBuffer, oldest first
    segment_silent,      \* tag_segments
    hysteresis_counter,  \* tag_segments
    emitted,             \* every <<silent, frames>> tag_segments yielded
    output_wave,         \* frame blocks written to the primary output
    bypass_wave,         \* frame blocks written to the bypass output
    pc                   \* "main", "running", "closed", "returned", "converting"
                         \* or the error raised

vars == <<args, SILENCE_LIMITS, sample_width, conv, HYSTERESIS_MS, PRE_ROLL_MS, POST_ROLL_MS, frame_rate, wave_nframes,
          wave_pos, bypass_enabled, delta_limits, chunk_samples, tagged,
          buffer, segment_silent, hysteresis_counter, emitted, output_wave,
          bypass_wave, pc>>

Min(a, b) == IF a < b THEN a ELSE b
Max(a, b) == IF a > b THEN a ELSE b

\* --------------------------------------------------------- configuration
\* int(float(X_MS) / CHUNK_MS)
HYSTERESIS_CHUNKS == HYSTERESIS_MS \div CHUNK_MS
PRE_ROLL_CHUNKS == PRE_ROLL_MS \div CHUNK_MS
POST_ROLL_CHUNKS == POST_ROLL_MS \div CHUNK_MS

\* mutant: the buffer is given room for the pre-roll and the post-roll together
BufferMaxlen_Sum == PRE_ROLL_CHUNKS + POST_ROLL_CHUNKS

\* RingBuffer(maxlen=max(PRE_ROLL_CHUNKS, POST_ROLL_CHUNKS))
BufferMaxlen == Max(PRE_ROLL_CHUNKS, POST_ROLL_CHUNKS)

\* ------------------------------------------------------------ thresholds
SILENCE_PRESET_LIMITS ==
    [conversational |-> <<-15, -24>>, quiet |-> <<-21, -30>>, whisper |-> <<-27, -36>>]

SampleWidths == {1, 2, 4}

\* A positive float is kept by its level, 10 * log10 of it, in thousandths of
\* a dB (rounded down): a product is a sum of levels, a quotient a difference.
\* 10 * log10(2) is 3.0103 dB, the level of 2.0 ** (sample_width * 8):
FullScaleLevel(width) == (width * 8 * 30103) \div 10

\* dbfs_to_sample_delta: 10.0 ** (dbfs / 10.0) * 2.0 ** (sample_width * 8);
\* the level of the sample delta returned
dbfs_to_sample_delta(dbfs, width) == 1000 * dbfs + FullScaleLevel(width)

\* mutant: the sample delta is not raised to 1 before the logarithm
sample_delta_to_dbfs_NoClamp(level, width) == level - FullScaleLevel(width)

\* sample_delta_to_dbfs on a sample delta given by its level:
\* log(max(sample_delta, 1) / 2.0 ** (sample_width * 8)) / log(10) * 10,
\* in thousandths of a dBFS; the level of 1 is 0
sample_delta_to_dbfs(level, width) == Max(level, 0) - FullScaleLevel(width)

\* the levels of the sample deltas 1, 2, ..., 10
StepLevels == <<0, 3010, 4771, 6020, 6989, 7781, 8450, 9030, 9542, 10000>>

\* The whole sample steps in a float limit given by its level (at most
\* Len(StepLevels), more than any delta of the model's samples): an integer
\* delta exceeds the float iff it exceeds its whole steps.
WholeSteps(level) ==
    Cardinality({n \in 1..Len(StepLevels) : StepLevels[n] <= level})

\* remove_silences: delta_limits, from the globals and the wave's sample width
DeltaLimits(limits, width) ==
    <<WholeSteps(dbfs_to_sample_delta(limits[1], width)),
      WholeSteps(dbfs_to_sample_delta(limits[2], width))>>

\* an optional number is a sequence: None is the empty one, x is <<x>>
None == <<>>
NoArgs == "no command line"
NoConversion == "no conversion"

\* ------------------------------------------------------------ RingBuffer
\* mutant: the entry popped from a full buffer is not returned
RingBufferAppend_LosesEvicted(buf, maxlen, value) ==
    IF Len(buf) = maxlen
    THEN IF Len(buf) = 0
         THEN [buffer |-> buf, discard |-> <<>>, raised |-> TRUE]
         ELSE [buffer |-> Append(Tail(buf), value),
               discard |-> <<>>, raised |-> FALSE]
    ELSE [buffer |-> Append(buf, value), discard |-> <<>>, raised |-> FALSE]

\* mutant: a full buffer keeps its oldest entry and grows
RingBufferAppend_NoEvict(buf, maxlen, value) ==
    IF Len(buf) = maxlen /\ Len(buf) = 0
    THEN [buffer |-> buf, discard |-> <<>>, raised |-> TRUE]
    ELSE [buffer |-> Append(buf, value), discard |-> <<>>, raised |-> FALSE]

\* RingBuffer.append: a full buffer pops its oldest entry and returns it;
\* popleft on an empty deque (maxlen 0) raises IndexError.  discard is the
\* empty sequence for None.
RingBufferAppend(buf, maxlen, value) ==
    IF Len(buf) = maxlen
    THEN IF Len(buf) = 0
         THEN [buffer |-> buf, discard |-> <<>>, raised |-> TRUE]
         ELSE [buffer |-> Append(Tail(buf), value),
               discard |-> <<Head(buf)>>, raised |-> FALSE]
    ELSE [buffer |-> Append(buf, value), discard |-> <<>>, raised |-> FALSE]

\* --------------------------------------------------------------- chunker
\* frames_per_chunk = int(input_wave.getframerate() * chunk_seconds), with
\* chunk_seconds = CHUNK_MS / 1000.0
frames_per_chunk == (frame_rate * CHUNK_MS) \div 1000

\* input_wave.readframes(frames_per_chunk): at most that many frames, fewer
\* at the end of the wave, none after it
ReadFrames ==
    [i \in 1..Min(frames_per_chunk, wave_nframes - wave_pos) |-> wave_pos + i]

Samples == 0..MaxSample

\* ------------------------------------------------------------ tag_chunks
RECURSIVE Insert(_, _)
Insert(s, x) ==
    IF s = <<>> THEN <<x>>
    ELSE IF x < Head(s) THEN <<x>> \o s
    ELSE <<Head(s)>> \o Insert(Tail(s), x)

RECURSIVE sorted(_)
sorted(s) == IF s = <<>> THEN <<>> ELSE Insert(sorted(Tail(s)), Head(s))

\* s[k:] of Python, k a 0-based index
SliceFrom(s, k) == SubSeq(s, k + 1, Len(s))
\* s[:k] of Python
SliceTo(s, k) == SubSeq(s, 1, k)

\* the two halves and the slices whose [0] gives q1 and q3
QuartileSlices(samples) ==
    LET count == Len(samples)
        first == SliceTo(samples, count \div 2)
        last  == SliceFrom(samples, count \div 2)
    IN  <<SliceFrom(first, Len(first) \div 2), SliceFrom(last, Len(last) \div 2)>>

\* [0] of an empty slice raises IndexError
TagChunkRaises(samples) ==
    \/ QuartileSlices(sorted(samples))[1] = <<>>
    \/ QuartileSlices(sorted(samples))[2] = <<>>

\* mutant: the peak comparison is not strict
TagChunkSilence_NonStrict(chunk, limits) ==
    LET samples == sorted(chunk)
        count == Len(samples)
        q1 == Head(QuartileSlices(samples)[1])
        q3 == Head(QuartileSlices(samples)[2])
        min_ == samples[1]
        max_ == samples[count]
        audible == (max_ - min_ >= limits[1]) \/ (q3 - q1 > limits[2])
    IN  ~audible

\* the label tag_chunks gives a chunk: TRUE is silent
TagChunkSilence(chunk, limits) ==
    LET samples == sorted(chunk)
        count == Len(samples)
        q1 == Head(QuartileSlices(samples)[1])
        q3 == Head(QuartileSlices(samples)[2])
        min_ == samples[1]
        max_ == samples[count]
        audible == (max_ - min_ > limits[1]) \/ (q3 - q1 > limits[2])
    IN  ~audible

\* ---------------------------------------------------------- tag_segments
Tag(silent, blocks) == [i \in 1..Len(blocks) |-> <<silent, blocks[i]>>]

\* the hysteresis counter after the first if/else of the loop body
BumpHysteresis(chunk_silent, seg_silent, counter) ==
    IF chunk_silent # seg_silent THEN counter + 1 ELSE 0

\* the buffered blocks dumped into the audible segment by that if/else
DumpedInAudible(chunk_silent, seg_silent, buf) ==
    IF chunk_silent = seg_silent /\ ~seg_silent THEN buf ELSE <<>>

\* the condition of the state change
ChangingState(chunk_silent, seg_silent, counter, hysteresis_chunks) ==
    (seg_silent /\ ~chunk_silent) \/ counter >= hysteresis_chunks

\* mutant: the audible chunk is yielded before the buffered blocks
StartAudible_ChunkFirst(buf, pre_roll_chunks, chunk_frames) ==
    <<<<FALSE, chunk_frames>>>> \o Tag(FALSE, buf)

\* starting an audible segment: what the branch yields
StartAudible(buf, pre_roll_chunks, chunk_frames) ==
    LET excess == Max(Len(buf) - pre_roll_chunks, 0)
    IN  Tag(FALSE, SliceTo(buf, excess))
        \o Tag(FALSE, SliceFrom(buf, excess))
        \o <<<<FALSE, chunk_frames>>>>

\* ending an audible segment: what the branch yields
EndAudible(buf, post_roll_chunks, chunk_frames) ==
    LET n == Min(post_roll_chunks, Len(buf))
    IN  Tag(FALSE, SliceTo(buf, n))
        \o Tag(TRUE, SliceFrom(buf, n))
        \o <<<<TRUE, chunk_frames>>>>

\* a silent chunk and no state change: what buffer.append's result yields
OverflowYield(discard) == Tag(TRUE, discard)

\* one iteration of the loop of tag_segments on (chunk_silent, chunk_frames)
TagSegmentsIteration(chunk_silent, chunk_frames) ==
    LET counter == BumpHysteresis(chunk_silent, segment_silent, hysteresis_counter)
        dumped == DumpedInAudible(chunk_silent, segment_silent, buffer)
        buf == IF chunk_silent = segment_silent /\ ~segment_silent
               THEN <<>> ELSE buffer
    IN  IF ChangingState(chunk_silent, segment_silent, counter, HYSTERESIS_CHUNKS)
        THEN [segment_silent |-> chunk_silent,
              hysteresis_counter |-> counter,
              buffer |-> <<>>,
              yielded |-> Tag(FALSE, dumped) \o
                  (IF ~chunk_silent
                   THEN StartAudible(buf, PRE_ROLL_CHUNKS, chunk_frames)
                   ELSE EndAudible(buf, POST_ROLL_CHUNKS, chunk_frames)),
              raised |-> FALSE]
        ELSE IF chunk_silent
        THEN LET a == RingBufferAppend(buf, BufferMaxlen, chunk_frames)
             IN  [segment_silent |-> segment_silent,
                  hysteresis_counter |-> counter,
                  buffer |-> a.buffer,
                  yielded |-> Tag(FALSE, dumped) \o OverflowYield(a.discard),
                  raised |-> a.raised]
        ELSE [segment_silent |-> segment_silent,
              hysteresis_counter |-> counter,
              buffer |-> buf,
              yielded |-> Tag(FALSE, dumped) \o <<<<FALSE, chunk_frames>>>>,
              raised |-> FALSE]

\* mutant: the blocks left in the buffer are yielded with the silent label
EndOfInputYield_AlwaysSilent(buf, seg_silent) == Tag(TRUE, buf)

\* the loop after the input is exhausted: the buffer goes to the current segment
EndOfInputYield(buf, seg_silent) == Tag(seg_silent, buf)

\* ------------------------------------------------------------- segmenter
\* mutant: every group is cut after its first element
RunLength_One(ts, key) == 1

RECURSIVE RunLength(_, _)
RunLength(ts, key) ==
    IF ts = <<>> \/ Head(ts)[1] # key THEN 0 ELSE 1 + RunLength(Tail(ts), key)

\* itertools.groupby on the label, each group mapped to its frame blocks
RECURSIVE segmenter(_)
segmenter(tagged_segments) ==
    IF tagged_segments = <<>> THEN <<>>
    ELSE LET silent == Head(tagged_segments)[1]
             n == RunLength(tagged_segments, silent)
         IN  <<<<silent, [i \in 1..n |-> tagged_segments[i][2]]>>>>
             \o segmenter(SliceFrom(tagged_segments, n))

\* ------------------------------------------------------- remove_silences
\* mutant: the frames of silent segments are written to the primary output too
RECURSIVE PrimaryWrites_AllSegments(_)
PrimaryWrites_AllSegments(segments) ==
    IF segments = <<>> THEN <<>>
    ELSE Head(segments)[2] \o PrimaryWrites_AllSegments(Tail(segments))

\* output_wave.writeframes over the segments
RECURSIVE PrimaryWrites(_)
PrimaryWrites(segments) ==
    IF segments = <<>> THEN <<>>
    ELSE (IF Head(segments)[1] THEN <<>> ELSE Head(segments)[2])
         \o PrimaryWrites(Tail(segments))

\* bypass_wave.writeframes over the segments
RECURSIVE BypassWrites(_, _)
BypassWrites(segments, enabled) ==
    IF segments = <<>> \/ ~enabled THEN <<>>
    ELSE Head(segments)[2] \o BypassWrites(Tail(segments), enabled)

\* the writes made once tag_segments has yielded `stream`
Route(stream) ==
    /\ output_wave' = PrimaryWrites(segmenter(stream))
    /\ bypass_wave' = BypassWrites(segmenter(stream), bypass_enabled)

\* ------------------------------------------------------------------ Init
TimingChoices(max_chunks) == {CHUNK_MS * k : k \in 0..max_chunks}
FrameRates == {5, 10, 20, 30}
\* thresholds below one sample step: a chunk is audible iff its samples differ
StreamLimits == {<<0, 0>>}

\* remove_silences called without main, under silence_limits(-27, -36) on
\* 8-bit audio: both limits are below one sample step
LibraryCall ==
    /\ args = NoArgs
    /\ SILENCE_LIMITS = SILENCE_PRESET_LIMITS.whisper
    /\ sample_width = 1
    /\ conv = NoConversion

StartOfRun ==
    /\ wave_pos = 0
    /\ chunk_samples = <<>>   \* not recorded: the samples are drawn at each read
    /\ tagged = <<>>
    /\ buffer = <<>>
    /\ segment_silent = TRUE
    /\ hysteresis_counter = 0
    /\ emitted = <<>>
    /\ output_wave = <<>>
    /\ bypass_wave = <<>>
    /\ pc = "running"

Init ==
    /\ HYSTERESIS_MS \in TimingChoices(MaxHysteresisChunks)
    /\ PRE_ROLL_MS \in TimingChoices(MaxRollChunks)
    /\ POST_ROLL_MS \in TimingChoices(MaxRollChunks)
    /\ frame_rate \in FrameRates
    /\ wave_nframes \in 0..MaxFrames
    /\ bypass_enabled \in BOOLEAN
    /\ delta_limits \in StreamLimits
    /\ LibraryCall
    /\ StartOfRun

\* --------------------------------------------------------------- actions
config == <<args, SILENCE_LIMITS, sample_width, conv, HYSTERESIS_MS, PRE_ROLL_MS,
            POST_ROLL_MS, frame_rate, wave_nframes, bypass_enabled, delta_limits>>

\* a chunk is read, tagged, and taken by tag_segments; its yields are written
SegmentChunk(samples) ==
    /\ pc = "running"
    /\ ReadFrames # <<>>
    /\ ~TagChunkRaises(samples)
    /\ \E silence \in {TagChunkSilence(samples, delta_limits)} :
       \E r \in {TagSegmentsIteration(silence, ReadFrames)} :
           /\ ~r.raised
           /\ wave_pos' = wave_pos + Len(ReadFrames)
           /\ tagged' = Append(tagged, <<silence, ReadFrames>>)
           /\ buffer' = r.buffer
           /\ segment_silent' = r.segment_silent
           /\ hysteresis_counter' = r.hysteresis_counter
           /\ emitted' = emitted \o r.yielded
           /\ Route(emitted')
    /\ UNCHANGED <<config, chunk_samples, pc>>

\* a chunk is read and tag_chunks raises IndexError on it
TagChunkError(samples) ==
    /\ pc = "running"
    /\ ReadFrames # <<>>
    /\ TagChunkRaises(samples)
    /\ wave_pos' = wave_pos + Len(ReadFrames)
    /\ pc' = "IndexError in tag_chunks"
    /\ UNCHANGED <<config, chunk_samples, tagged, buffer, segment_silent,
                   hysteresis_counter, emitted, output_wave, bypass_wave>>

\* a chunk is read and tagged, and RingBuffer.append raises IndexError
AppendError(samples) ==
    /\ pc = "running"
    /\ ReadFrames # <<>>
    /\ ~TagChunkRaises(samples)
    /\ \E silence \in {TagChunkSilence(samples, delta_limits)} :
       \E r \in {TagSegmentsIteration(silence, ReadFrames)} :
           /\ r.raised
           /\ wave_pos' = wave_pos + Len(ReadFrames)
           /\ tagged' = Append(tagged, <<silence, ReadFrames>>)
           /\ hysteresis_counter' = r.hysteresis_counter
    /\ pc' = "IndexError in RingBuffer.append"
    /\ UNCHANGED <<config, chunk_samples, buffer, segment_silent, emitted,
                   output_wave, bypass_wave>>

\* as EndOfStream, with the empty chunk labelled silent and passed on
EndOfStream_ForwardsEmpty ==
    /\ pc = "running"
    /\ ReadFrames = <<>>
    /\ tagged' = Append(tagged, <<TRUE, <<>>>>)
    /\ emitted' = emitted \o EndOfInputYield(buffer, segment_silent)
    /\ Route(emitted')
    /\ pc' = "closed"
    /\ UNCHANGED <<config, wave_pos, chunk_samples, buffer, segment_silent,
                   hysteresis_counter>>

\* the read is empty: tag_chunks breaks, tag_segments dumps its buffer,
\* the writes are made and the waves are closed
EndOfStream ==
    /\ pc = "running"
    /\ ReadFrames = <<>>
    /\ emitted' = emitted \o EndOfInputYield(buffer, segment_silent)
    /\ Route(emitted')
    /\ pc' = "closed"
    /\ UNCHANGED <<config, wave_pos, chunk_samples, tagged, buffer,
                   segment_silent, hysteresis_counter>>

ChunkSamples == [1..Len(ReadFrames) -> Samples]

Next ==
    \/ \E samples \in ChunkSamples : SegmentChunk(samples)
    \/ \E samples \in ChunkSamples : TagChunkError(samples)
    \/ \E samples \in ChunkSamples : AppendError(samples)
    \/ EndOfStream

Spec == Init /\ [][Next]_vars

\* remove_silences pulls the next chunk as soon as the last one is written:
\* the for loop over the segments takes its step whenever there is one
FairInit == Init /\ wave_nframes <= MaxFairFrames

FairSpec == FairInit /\ [][Next]_vars /\ WF_vars(Next)

\* A wave of the default timings (HYSTERESIS_MS 1000, PRE_ROLL_MS 200,
\* POST_ROLL_MS 100) whose chunks are labelled 10 silent, 5 audible, 12 silent
\* (or a prefix of that), two frames to a chunk.
ScenarioLabels == [i \in 1..27 |-> i <= 10 \/ i > 15]

ScenarioInit ==
    /\ HYSTERESIS_MS = DEFAULT_HYSTERESIS_MS
    /\ PRE_ROLL_MS = DEFAULT_PRE_ROLL_MS
    /\ POST_ROLL_MS = DEFAULT_POST_ROLL_MS
    /\ frame_rate = 20
    /\ wave_nframes \in {2 * k : k \in 0..Len(ScenarioLabels)}
    /\ bypass_enabled \in BOOLEAN
    /\ delta_limits \in StreamLimits
    /\ LibraryCall
    /\ StartOfRun

ScenarioChunk(samples) ==
    /\ Len(tagged) < Len(ScenarioLabels)
    /\ ReadFrames # <<>>
    /\ ~TagChunkRaises(samples)
    /\ TagChunkSilence(samples, delta_limits) = ScenarioLabels[Len(tagged) + 1]
    /\ SegmentChunk(samples)

ScenarioNext ==
    \/ \E samples \in ChunkSamples : ScenarioChunk(samples)
    \/ EndOfStream

ScenarioSpec == ScenarioInit /\ [][ScenarioNext]_vars

\* A wave of at most one chunk whose samples are known (chunk_samples), under
\* the default timings: the chunk is read, tagged by tag_chunks and written.
RECURSIVE SeqsUpTo(_, _)
SeqsUpTo(S, n) ==
    IF n = 0 THEN {<<>>}
    ELSE LET shorter == SeqsUpTo(S, n - 1)
         IN  shorter \cup {Append(q, x) : q \in shorter, x \in S}

ClassifierInit ==
    /\ HYSTERESIS_MS = DEFAULT_HYSTERESIS_MS
    /\ PRE_ROLL_MS = DEFAULT_PRE_ROLL_MS
    /\ POST_ROLL_MS = DEFAULT_POST_ROLL_MS
    /\ chunk_samples \in SeqsUpTo(0..MaxTagSample, MaxChunkSamples)
    /\ frame_rate = 10 * MaxChunkSamples
    /\ wave_nframes = Len(chunk_samples)
    /\ bypass_enabled = FALSE
    /\ delta_limits \in (0..MaxLimit) \X (0..MaxLimit)
    /\ args = NoArgs
    /\ SILENCE_LIMITS = SILENCE_PRESET_LIMITS.quiet
    /\ sample_width = 1
    /\ conv = NoConversion
    /\ wave_pos = 0
    /\ tagged = <<>>
    /\ buffer = <<>>
    /\ segment_silent = TRUE
    /\ hysteresis_counter = 0
    /\ emitted = <<>>
    /\ output_wave = <<>>
    /\ bypass_wave = <<>>
    /\ pc = "running"

ClassifierNext ==
    \/ SegmentChunk(chunk_samples)
    \/ TagChunkError(chunk_samples)
    \/ EndOfStream

ClassifierSpec == ClassifierInit /\ [][ClassifierNext]_vars

\* nothing has been read, tagged, buffered or written
NothingProcessed ==
    /\ wave_pos = 0
    /\ chunk_samples = <<>>
    /\ tagged = <<>>
    /\ buffer = <<>>
    /\ segment_silent = TRUE
    /\ hysteresis_counter = 0
    /\ emitted = <<>>
    /\ output_wave = <<>>
    /\ bypass_wave = <<>>

DefaultTimings ==
    /\ HYSTERESIS_MS = DEFAULT_HYSTERESIS_MS
    /\ PRE_ROLL_MS = DEFAULT_PRE_ROLL_MS
    /\ POST_ROLL_MS = DEFAULT_POST_ROLL_MS

\* A dBFS value and a sample width taken through dbfs_to_sample_delta and
\* then sample_delta_to_dbfs; no wave is processed.
ConversionInit ==
    /\ conv \in [dbfs : -MaxAttenuation..0, width : SampleWidths,
                  sample_delta : {None}, back : {None}]
    /\ sample_width = conv.width
    /\ args = NoArgs
    /\ SILENCE_LIMITS = SILENCE_PRESET_LIMITS.quiet
    /\ DefaultTimings
    /\ frame_rate = 20
    /\ wave_nframes = 0
    /\ bypass_enabled = FALSE
    /\ delta_limits = DeltaLimits(SILENCE_LIMITS, sample_width)
    /\ NothingProcessed
    /\ pc = "converting"

pipeline == <<wave_pos, chunk_samples, tagged, buffer, segment_silent,
              hysteresis_counter, emitted, output_wave, bypass_wave>>

ToSampleDelta ==
    /\ pc = "converting"
    /\ conv.sample_delta = None
    /\ conv' = [conv EXCEPT !.sample_delta = <<dbfs_to_sample_delta(conv.dbfs, conv.width)>>]
    /\ UNCHANGED <<args, SILENCE_LIMITS, sample_width, HYSTERESIS_MS, PRE_ROLL_MS,
                   POST_ROLL_MS, frame_rate, wave_nframes, bypass_enabled,
                   delta_limits, pipeline, pc>>

ToDbfs ==
    /\ pc = "converting"
    /\ conv.sample_delta # None
    /\ conv.back = None
    /\ conv' = [conv EXCEPT !.back = <<sample_delta_to_dbfs(conv.sample_delta[1], conv.width)>>]
    /\ UNCHANGED <<args, SILENCE_LIMITS, sample_width, HYSTERESIS_MS, PRE_ROLL_MS,
                   POST_ROLL_MS, frame_rate, wave_nframes, bypass_enabled,
                   delta_limits, pipeline, pc>>

ConversionNext == ToSampleDelta \/ ToDbfs

ConversionSpec == ConversionInit /\ [][ConversionNext]_vars

\* remove_silences under timings that need not be multiples of CHUNK_MS:
\* every half chunk duration up to MaxTimingHalfChunks of them
AnyTimingChoices == {(CHUNK_MS * k) \div 2 : k \in 0..MaxTimingHalfChunks}

TimingInit ==
    /\ HYSTERESIS_MS \in AnyTimingChoices
    /\ PRE_ROLL_MS \in AnyTimingChoices
    /\ POST_ROLL_MS \in AnyTimingChoices
    /\ frame_rate = 20
    /\ wave_nframes \in 0..MaxFairFrames
    /\ bypass_enabled = FALSE
    /\ delta_limits \in StreamLimits
    /\ LibraryCall
    /\ StartOfRun

TimingSpec == TimingInit /\ [][Next]_vars

\* ------------------------------------------------------------------ main
\* limits given on the command line (type=float)
OverrideDbfs == {0, -18, -33}

Arguments ==
    [whisper : BOOLEAN, quiet : BOOLEAN, conversational : BOOLEAN,
     silence_peak_limit : {None} \cup {<<x>> : x \in OverrideDbfs},
     silence_iqr_limit : {None} \cup {<<x>> : x \in OverrideDbfs}]

\* the if / elif / else on the preset flags: both conditions test args.whisper
PresetLimits(a) ==
    IF a.whisper THEN SILENCE_PRESET_LIMITS.whisper
    ELSE IF a.whisper THEN SILENCE_PRESET_LIMITS.conversational
    ELSE SILENCE_PRESET_LIMITS.quiet

\* `if args.silence_peak_limit:` on an optional float: None and 0.0 are false
Truthy(limit) == limit # None /\ limit[1] # 0

\* delta_limits[0] = ... and delta_limits[1] = ... assign into the preset's
\* tuple: TypeError, 'tuple' object does not support item assignment
OverrideRaises(a) == Truthy(a.silence_peak_limit) \/ Truthy(a.silence_iqr_limit)

\* main called on a wave of at most MaxMainFrames frames, 20 frames a second,
\* under the module's timings and limits
MainInit ==
    /\ args \in Arguments
    /\ SILENCE_LIMITS = SILENCE_PRESET_LIMITS.quiet
    /\ sample_width \in SampleWidths
    /\ conv = NoConversion
    /\ DefaultTimings
    /\ frame_rate = 20
    /\ wave_nframes \in 0..MaxMainFrames
    /\ bypass_enabled = FALSE
    /\ delta_limits = None
    /\ NothingProcessed
    /\ pc = "main"

\* main raises on an override
MainTypeError ==
    /\ pc = "main"
    /\ OverrideRaises(args)
    /\ pc' = "TypeError in main"
    /\ UNCHANGED <<args, SILENCE_LIMITS, sample_width, conv, HYSTERESIS_MS,
                   PRE_ROLL_MS, POST_ROLL_MS, frame_rate, wave_nframes,
                   bypass_enabled, delta_limits, pipeline>>

\* main enters silence_limits(*delta_limits) and calls remove_silences, which
\* converts the globals to sample deltas
MainRun ==
    /\ pc = "main"
    /\ ~OverrideRaises(args)
    /\ SILENCE_LIMITS' = PresetLimits(args)
    /\ delta_limits' = DeltaLimits(SILENCE_LIMITS', sample_width)
    /\ pc' = "running"
    /\ UNCHANGED <<args, sample_width, conv, HYSTERESIS_MS, PRE_ROLL_MS,
                   POST_ROLL_MS, frame_rate, wave_nframes, bypass_enabled,
                   pipeline>>

\* remove_silences returns: silence_limits puts the old globals back
MainReturn ==
    /\ pc = "closed"
    /\ SILENCE_LIMITS' = SILENCE_PRESET_LIMITS.quiet
    /\ pc' = "returned"
    /\ UNCHANGED <<args, sample_width, conv, HYSTERESIS_MS, PRE_ROLL_MS,
                   POST_ROLL_MS, frame_rate, wave_nframes, bypass_enabled,
                   delta_limits, pipeline>>

MainNext ==
    \/ MainTypeError
    \/ MainRun
    \/ \E samples \in ChunkSamples : SegmentChunk(samples)
    \/ \E samples \in ChunkSamples : TagChunkError(samples)
    \/ EndOfStream
    \/ MainReturn

MainSpec == MainInit /\ [][MainNext]_vars

\* ================================================================ claims
Frames(ts) == [i \in 1..Len(ts) |-> ts[i][2]]

RECURSIVE Flatten(_)
Flatten(blocks) ==
    IF blocks = <<>> THEN <<>> ELSE Head(blocks) \o Flatten(Tail(blocks))

IsEmitted(block) == \E i \in 1..Len(emitted) : emitted[i][2] = block

\* the label a block was emitted with (TRUE: silent segment)
EmittedSilent(block) ==
    emitted[CHOOSE i \in 1..Len(emitted) : emitted[i][2] = block][1]

EmittedAudible(block) == IsEmitted(block) /\ ~EmittedSilent(block)

\* the number of silent-labelled chunks at the end of the chunks consumed
TrailingSilent ==
    CHOOSE r \in 0..Len(tagged) :
        /\ \A j \in (Len(tagged) - r + 1)..Len(tagged) : tagged[j][1]
        /\ r = Len(tagged) \/ ~tagged[Len(tagged) - r][1]

\* C1: with a buffer capacity of at least one, the blocks emitted so far (both
\* labels together, in emission order) followed by the buffered blocks are
\* exactly the blocks consumed so far, in input order; after the end-of-input
\* dump the emitted blocks alone are all the blocks consumed.
C1_Partition ==
    BufferMaxlen >= 1 =>
        /\ pc # "closed" => Frames(emitted) \o buffer = Frames(tagged)
        /\ pc = "closed" => Frames(emitted) = Frames(tagged)

\* a finished run of four chunks or more with both labels emitted, a silent
\* chunk emitted into an audible segment and a block evicted from a full buffer
C1_Witness ==
    /\ pc = "closed"
    /\ BufferMaxlen >= 1
    /\ Len(tagged) >= 4
    /\ Len(emitted) = Len(tagged)
    /\ \E i \in 1..Len(emitted) : emitted[i][1]
    /\ \E i \in 1..Len(tagged) : tagged[i][1] /\ EmittedAudible(tagged[i][2])
    /\ \E i \in 1..Len(tagged) :
           /\ i + BufferMaxlen < Len(tagged)
           /\ \A j \in i..(i + BufferMaxlen) : tagged[j][1]

\* C2: with a buffer capacity of at least one, a run of k silent chunks,
\* 1 <= k < hysteresis_chunks, between two audible chunks is emitted with the
\* audible label, every chunk of it.
C2_BriefPauseStaysAudible ==
    \A a \in 1..Len(tagged) : \A k \in 1..Len(tagged) :
        ( /\ a + k + 1 <= Len(tagged)
          /\ BufferMaxlen >= 1
          /\ k < HYSTERESIS_CHUNKS
          /\ ~tagged[a][1]
          /\ \A j \in (a + 1)..(a + k) : tagged[j][1]
          /\ ~tagged[a + k + 1][1] )
        => \A j \in (a + 1)..(a + k) : EmittedAudible(tagged[j][2])

\* C3: with a buffer capacity of at least one, after an audible chunk followed
\* by fewer than hysteresis_chunks silent chunks the segmenter is still in the
\* audible segment.
C3_ReleaseDelay ==
    ( /\ pc = "running"
      /\ BufferMaxlen >= 1
      /\ TrailingSilent < Len(tagged)
      /\ TrailingSilent < HYSTERESIS_CHUNKS )
    => ~segment_silent

\* C4: with a hysteresis of one chunk or more, after k silent chunks and one
\* audible chunk from the start, the last
\* min(k, pre_roll_chunks) silent chunks and the audible chunk are emitted with
\* the audible label and every earlier silent chunk with the silent label.
C4_AttackImmediacy ==
    LET n == Len(tagged)
        k == n - 1
    IN  ( /\ pc = "running"
          /\ HYSTERESIS_CHUNKS >= 1
          /\ n >= 1
          /\ ~tagged[n][1]
          /\ \A j \in 1..k : tagged[j][1] )
        => /\ EmittedAudible(tagged[n][2])
           /\ \A j \in 1..k :
                  /\ IsEmitted(tagged[j][2])
                  /\ EmittedSilent(tagged[j][2]) <=> (j <= k - Min(k, PRE_ROLL_CHUNKS))

\* C5: the scenario of 10 silent, 5 audible and 12 silent chunks with the
\* default timings ends with three segments: the first 8 chunks silent, the
\* next 8 chunks audible, the last 11 chunks silent.
C5_ScenarioSegments ==
    (pc = "closed" /\ Len(tagged) = Len(ScenarioLabels))
    => segmenter(emitted) =
           << <<TRUE, Frames(SubSeq(tagged, 1, 8))>>,
              <<FALSE, Frames(SubSeq(tagged, 9, 16))>>,
              <<TRUE, Frames(SubSeq(tagged, 17, 27))>> >>

\* C6: once an audible segment has been released, the chunks of the silent run
\* that were emitted with the audible label are the first ones of the run, at
\* most post_roll_chunks of them, with no silent-labelled chunk before them;
\* the step of the release leaves the buffer empty.
C6_PostRollFollowsAudible ==
    LET n == Len(tagged)
        last == n - TrailingSilent
    IN  ( /\ pc = "running"
          /\ segment_silent
          /\ last >= 1 )
        => \A j \in (last + 1)..n :
               EmittedAudible(tagged[j][2]) =>
                   /\ j - last <= POST_ROLL_CHUNKS
                   /\ \A i \in (last + 1)..j : EmittedAudible(tagged[i][2])

\* C7: a step that pushes a silent chunk into a full buffer without a change of
\* state emits exactly the evicted block, labelled with the current segment.
C7_EvictedGoesToCurrentSegment ==
    [][ ( /\ pc = "running" /\ pc' = "running"
          /\ Len(tagged') = Len(tagged) + 1
          /\ tagged'[Len(tagged')][1]
          /\ segment_silent' = segment_silent
          /\ BufferMaxlen >= 1
          /\ Len(buffer) = BufferMaxlen )
        => emitted' = Append(emitted, <<segment_silent, Head(buffer)>>) ]_vars

\* C8: the primary output holds exactly the blocks emitted with the audible
\* label, in emission order (no block emitted silent); when the run reaches
\* the end of the wave with bypass enabled, the bypass output holds every
\* input block once, in input order: the frames of the input, all of them.
C8_OutputRouting ==
    /\ output_wave = Frames(SelectSeq(emitted, LAMBDA e : ~e[1]))
    /\ \A i \in 1..Len(emitted) :
           emitted[i][1] =>
               \A j \in 1..Len(output_wave) : output_wave[j] # emitted[i][2]
    /\ ~bypass_enabled => bypass_wave = <<>>
    /\ (bypass_enabled /\ pc = "closed" /\ wave_pos = wave_nframes) =>
           /\ bypass_wave = Frames(tagged)
           /\ Flatten(bypass_wave) = [i \in 1..wave_nframes |-> i]

\* a finished run with bypass: audible and silent segments, several chunks
C8_Witness ==
    /\ pc = "closed"
    /\ bypass_enabled
    /\ wave_pos = wave_nframes
    /\ Len(output_wave) >= 2
    /\ Len(bypass_wave) >= Len(output_wave) + 2
    /\ Len(segmenter(emitted)) >= 3

\* the sample at 0-based position k of the chunk's samples in ascending order
OrderStatistic(chunk, k) ==
    CHOOSE v \in {chunk[i] : i \in 1..Len(chunk)} :
        /\ Cardinality({i \in 1..Len(chunk) : chunk[i] < v}) <= k
        /\ k < Cardinality({i \in 1..Len(chunk) : chunk[i] <= v})

\* C9: a chunk of n >= 2 samples is tagged audible iff s[n-1] - s[0] exceeds the
\* peak limit or s[h + (n-h) div 2] - s[h div 2] exceeds the IQR limit, s the
\* samples in ascending order and h = n div 2; both comparisons are strict.
C9_ClassificationRule ==
    LET n == Len(chunk_samples)
        h == n \div 2
        peak_delta == OrderStatistic(chunk_samples, n - 1)
                          - OrderStatistic(chunk_samples, 0)
        iqr == OrderStatistic(chunk_samples, h + ((n - h) \div 2))
                   - OrderStatistic(chunk_samples, h \div 2)
    IN  (n >= 2 /\ wave_pos = n) =>
            /\ pc # "IndexError in tag_chunks"
            /\ Len(tagged) = 1
            /\ tagged[1][1] = ~(peak_delta > delta_limits[1] \/ iqr > delta_limits[2])

\* an odd chunk whose peak delta equals its limit and is tagged audible by
\* its IQR alone
C9_Witness ==
    /\ Len(chunk_samples) = 3
    /\ Len(tagged) = 1
    /\ ~tagged[1][1]
    /\ OrderStatistic(chunk_samples, 2) - OrderStatistic(chunk_samples, 0)
           = delta_limits[1]
    /\ delta_limits[2] < delta_limits[1]

\* C10: with two frames or more to a chunk, no chunk read from the wave makes
\* tag_chunks raise, and every chunk read is forwarded.
C10_ShortChunkForwarded ==
    frames_per_chunk >= 2 =>
        /\ pc # "IndexError in tag_chunks"
        /\ pc # "IndexError in RingBuffer.append" =>
               Flatten(Frames(tagged)) = [i \in 1..wave_pos |-> i]

\* C11: the wave is never read past its end; the empty chunk is neither
\* labelled nor passed on; once the empty chunk has been read (the run is
\* closed) the chunks labelled are the frames read before it, each once and in
\* order, every chunk non-empty and of frames_per_chunk frames but the last;
\* every step is taken by a running pipeline (nothing is read after the empty
\* chunk) and reads further into the wave or ends the run; and the run ends:
\* closed, or with an error raised.
C11_EndOfStreamTerminates ==
    /\ [] ( /\ wave_pos <= wave_nframes
            /\ \A i \in 1..Len(tagged) : tagged[i][2] # <<>>
            /\ \A i \in 1..Len(emitted) : emitted[i][2] # <<>>
            /\ pc = "closed" =>
                   /\ ReadFrames = <<>>
                   /\ Flatten(Frames(tagged)) = [i \in 1..wave_pos |-> i]
                   /\ \A i \in 1..(Len(tagged) - 1) :
                          Len(tagged[i][2]) = frames_per_chunk )
    /\ [][ /\ pc = "running"
           /\ pc' = "running" => wave_pos' > wave_pos
           /\ pc' = "closed" => wave_pos' = wave_pos /\ tagged' = tagged ]_vars
    /\ <>(pc # "running")

\* a closed run of two chunks that read the whole wave, the last one short
C11_Witness ==
    /\ pc = "closed"
    /\ Len(tagged) = 2
    /\ wave_pos = wave_nframes
    /\ Len(tagged[2][2]) < frames_per_chunk


\* C12: when the input is exhausted the blocks still in the buffer are emitted
\* in buffer order (oldest first), each with the label of the segment
\* tag_segments is in, silent or audible, after everything emitted before; the
\* closing step emits nothing else, changes neither the segment state nor the
\* hysteresis counter, and consumes no chunk.
C12_EndOfInputFlush ==
    /\ [] ( pc = "closed" =>
                LET n == Len(emitted)
                    b == Len(buffer)
                IN  /\ n >= b
                    /\ \A i \in 1..b :
                           emitted[n - b + i] = <<segment_silent, buffer[i]>> )
    /\ [][ (pc = "running" /\ pc' = "closed") =>
               /\ SubSeq(emitted', 1, Len(emitted)) = emitted
               /\ Len(emitted') = Len(emitted) + Len(buffer)
               /\ segment_silent' = segment_silent
               /\ hysteresis_counter' = hysteresis_counter
               /\ buffer' = buffer
               /\ tagged' = tagged ]_vars

\* the input ends in an audible segment with two silent chunks in the buffer
C12_Witness ==
    /\ pc = "closed"
    /\ ~segment_silent
    /\ Len(buffer) = 2
    /\ hysteresis_counter = 2

\* C17: while the pipeline runs the buffer holds at most max(pre_roll_chunks,
\* post_roll_chunks) blocks; they are the most recently consumed chunks, in
\* arrival order, all labelled silent and none emitted yet.  A step that
\* appends a silent chunk to a full buffer of capacity one or more drops the
\* oldest block, stores the chunk as the newest and emits the dropped block;
\* a step that appends to a buffer that is not full stores the chunk as the
\* newest and emits nothing.
C17_RingBufferDiscipline ==
    /\ [] ( pc = "running" =>
                LET n == Len(tagged)
                    b == Len(buffer)
                IN  /\ b <= BufferMaxlen
                    /\ b <= n
                    /\ \A i \in 1..b :
                           /\ buffer[i] = tagged[n - b + i][2]
                           /\ tagged[n - b + i][1]
                           /\ ~IsEmitted(buffer[i]) )
    /\ [][ LET chunk == tagged'[Len(tagged')]
               counter == BumpHysteresis(TRUE, segment_silent, hysteresis_counter)
           IN  ( /\ pc' = "running"
                 /\ Len(tagged') = Len(tagged) + 1
                 /\ chunk[1]
                 /\ ~ChangingState(TRUE, segment_silent, counter, HYSTERESIS_CHUNKS) )
               => IF Len(buffer) = BufferMaxlen
                  THEN /\ buffer' = Append(Tail(buffer), chunk[2])
                       /\ Frames(emitted') = Append(Frames(emitted), Head(buffer))
                  ELSE /\ buffer' = Append(buffer, chunk[2])
                       /\ emitted' = emitted ]_vars

\* a full buffer of two blocks that has dropped a block
C17_Witness ==
    /\ pc = "running"
    /\ BufferMaxlen = 2
    /\ Len(buffer) = 2
    /\ Len(tagged) >= 3
    /\ buffer[2] = tagged[Len(tagged)][2]
    /\ IsEmitted(tagged[Len(tagged) - 2][2])
    /\ tagged[Len(tagged) - 2][1]

\* C18: the step that consumes an audible-labelled chunk emits the blocks
\* that were in the buffer and then the chunk itself, the chunk with the
\* audible label, and leaves tag_segments in the audible segment with an empty
\* buffer; so every audible-labelled chunk consumed has been emitted with the
\* audible label, and every block in the buffer is a silent-labelled chunk.
C18_AudibleNeverBuffered ==
    /\ [] ( /\ \A j \in 1..Len(tagged) :
                   ~tagged[j][1] => EmittedAudible(tagged[j][2])
            /\ \A i \in 1..Len(buffer) :
                   \E j \in 1..Len(tagged) : tagged[j] = <<TRUE, buffer[i]>>
            /\ (tagged # <<>> /\ ~tagged[Len(tagged)][1]) =>
                   /\ emitted[Len(emitted)] = <<FALSE, tagged[Len(tagged)][2]>>
                   /\ ~segment_silent
                   /\ buffer = <<>> )
    /\ [][ LET chunk == tagged'[Len(tagged')]
           IN  (Len(tagged') = Len(tagged) + 1 /\ ~chunk[1]) =>
                   /\ Frames(emitted') = Frames(emitted) \o buffer \o <<chunk[2]>>
                   /\ emitted'[Len(emitted')] = <<FALSE, chunk[2]>>
                   /\ ~segment_silent'
                   /\ buffer' = <<>> ]_vars

\* an audible chunk consumed in the silent segment with two blocks buffered,
\* and one consumed in the audible segment with a block buffered
C18_Witness ==
    /\ Len(tagged) >= 5
    /\ tagged[1][1] /\ tagged[2][1] /\ ~tagged[3][1]
    /\ tagged[4][1] /\ ~tagged[5][1]
    /\ BufferMaxlen = 2
    /\ HYSTERESIS_CHUNKS = 3

\* C19: the segments made from the emission stream are non-empty, consecutive
\* segments have opposite labels, and the blocks of the segments, each with its
\* segment's label, concatenated in order are the emission stream.
C19_RunLengthGrouping ==
    LET segments == segmenter(emitted)
    IN  /\ \A i \in 1..Len(segments) : Len(segments[i][2]) >= 1
        /\ \A i \in 1..(Len(segments) - 1) : segments[i][1] # segments[i + 1][1]
        /\ Flatten([i \in 1..Len(segments) |-> Tag(segments[i][1], segments[i][2])])
               = emitted

\* an emission stream of three segments or more, one of them of several blocks
C19_Witness ==
    /\ Len(segmenter(emitted)) >= 3
    /\ \E i \in 1..Len(segmenter(emitted)) : Len(segmenter(emitted)[i][2]) >= 2

\* C20: with pre-roll and post-roll both zero (a buffer of capacity 0)
\* RingBuffer.append does not raise, and every silent-labelled chunk consumed
\* is emitted exactly once.
C20_ZeroPaddingUsable ==
    (PRE_ROLL_CHUNKS = 0 /\ POST_ROLL_CHUNKS = 0) =>
        /\ pc # "IndexError in RingBuffer.append"
        /\ \A j \in 1..Len(tagged) :
               tagged[j][1] =>
                   Cardinality({i \in 1..Len(emitted) :
                                   emitted[i][2] = tagged[j][2]}) = 1

\* the dBFS values of the presets
PresetDbfs ==
    { SILENCE_PRESET_LIMITS[p][i] : p \in DOMAIN SILENCE_PRESET_LIMITS, i \in 1..2 }

Distance(a, b) == IF a >= b THEN a - b ELSE b - a

\* C16: for every dBFS value x of the presets and every sample width w in
\* {1, 2, 4}, sample_delta_to_dbfs(dbfs_to_sample_delta(x, w), w) is x, to
\* within a thousandth of a dB, also when dbfs_to_sample_delta(x, w) is below 1.
C16_RoundTrip ==
    (conv.back # None /\ conv.dbfs \in PresetDbfs) =>
        Distance(conv.back[1], 1000 * conv.dbfs) <= 1

\* C16 as amended: the round trip gives x back, to within a thousandth of a
\* dB, when dbfs_to_sample_delta(x, w) is 1 or more (level 0 or more); when it
\* is below 1 the result is the dBFS value of one sample step,
\* 10 * log10(1 / 2 ** (8 * w)), whatever x is.
C16_RoundTripAboveOneStep ==
    (conv.back # None /\ conv.dbfs \in PresetDbfs) =>
        IF conv.sample_delta[1] >= 0
        THEN Distance(conv.back[1], 1000 * conv.dbfs) <= 1
        ELSE conv.back[1] = -FullScaleLevel(conv.width)

\* a preset value converted and back whose sample delta is below one step,
\* with a result well away from it
C16_Witness ==
    /\ conv.back # None
    /\ conv.dbfs \in PresetDbfs
    /\ conv.sample_delta[1] < 0
    /\ Distance(conv.back[1], 1000 * conv.dbfs) > 1000

\* the preset flags given on the command line
PresetFlags == {f \in {"whisper", "quiet", "conversational"} : args[f]}

NoOverride == args.silence_peak_limit = None /\ args.silence_iqr_limit = None

\* C13: main run with one preset flag, or none, and no override processes the
\* stream with the limits of that preset: conversational (-15, -24), quiet
\* (-21, -30), whisper (-27, -36), and quiet when no preset is given.
C13_PresetSelection ==
    (pc \in {"running", "closed"} /\ NoOverride) =>
        /\ PresetFlags = {"conversational"} => SILENCE_LIMITS = <<-15, -24>>
        /\ PresetFlags = {"quiet"} => SILENCE_LIMITS = <<-21, -30>>
        /\ PresetFlags = {"whisper"} => SILENCE_LIMITS = <<-27, -36>>
        /\ PresetFlags = {} => SILENCE_LIMITS = <<-21, -30>>

\* C14: main does not raise on an override; a run processes the stream with
\* the preset's pair in which a peak limit given on the command line replaces
\* the peak limit and an IQR limit given replaces the IQR limit, each
\* independently of the other, and the sample deltas used for every chunk are
\* the conversion of that pair.
C14_IndependentOverrides ==
    LET preset == PresetLimits(args)
        peak == IF args.silence_peak_limit = None
                THEN preset[1] ELSE args.silence_peak_limit[1]
        iqr  == IF args.silence_iqr_limit = None
                THEN preset[2] ELSE args.silence_iqr_limit[1]
    IN  /\ pc # "TypeError in main"
        /\ pc \in {"running", "closed"} =>
               /\ SILENCE_LIMITS = <<peak, iqr>>
               /\ delta_limits = DeltaLimits(<<peak, iqr>>, sample_width)

\* C15: a run whose hysteresis, pre-roll or post-roll duration is not a
\* multiple of the chunk duration is rejected before any chunk: no chunk is
\* labelled or emitted under a truncated chunk count.
C15_InvalidTimingRejected ==
    ( \/ HYSTERESIS_MS % CHUNK_MS # 0
      \/ PRE_ROLL_MS % CHUNK_MS # 0
      \/ POST_ROLL_MS % CHUNK_MS # 0 )
    => /\ tagged = <<>>
       /\ emitted = <<>>

\* C21: with C = max(pre_roll_chunks, post_roll_chunks) of one or more, every
\* chunk consumed that has C or more chunks consumed after it has been emitted,
\* exactly once; the chunks not emitted yet are the last ones consumed, at most
\* C of them, and they are in the buffer; after the end-of-input flush every
\* chunk consumed has been emitted.
C21_BoundedLookBack ==
    LET C == Max(PRE_ROLL_CHUNKS, POST_ROLL_CHUNKS)
        n == Len(tagged)
        Emissions(j) == {i \in 1..Len(emitted) : emitted[i][2] = tagged[j][2]}
    IN  C >= 1 =>
            /\ \A j \in 1..(n - C) : Cardinality(Emissions(j)) = 1
            /\ \A j \in 1..n :
                   Emissions(j) = {} =>
                       /\ j > n - C
                       /\ \E i \in 1..Len(buffer) : buffer[i] = tagged[j][2]
            /\ pc = "closed" => \A j \in 1..n : Cardinality(Emissions(j)) = 1

\* a chunk emitted by the step that consumed the second chunk after it, from
\* a full buffer of capacity two, in a run with a hysteresis of three chunks
C21_Witness ==
    /\ pc = "running"
    /\ Max(PRE_ROLL_CHUNKS, POST_ROLL_CHUNKS) = 2
    /\ HYSTERESIS_CHUNKS = 3
    /\ Len(tagged) >= 4
    /\ Len(emitted) = Len(tagged) - 2
    /\ Len(buffer) = 2
    /\ emitted[Len(emitted)][2] = tagged[Len(tagged) - 2][2]

====
